---- MODULE Spec2Model ----
(***************************************************************************)
(* The webhook container pool (devs_webhook/core/container_pool.py): the   *)
(* per-container task queues, queue_task, the container workers with the   *)
(* repository cache and the worker subprocess, the idle cleanup worker and *)
(* shutdown.  One action is one run of a coroutine between two points      *)
(* where it awaits: asyncio runs a coroutine without interruption until    *)
(* its next suspension.  The worker subprocess itself                      *)
(* (devs_webhook/cli/worker.py) is a second state machine over its own     *)
(* variables; the pool sees it as a program with an exit code and a        *)
(* standard output.                                                        *)
(***************************************************************************)
EXTENDS Integers, Sequences, FiniteSets, TLC

\* ----------------------------------------------------------------- bounds
\* Number of queue_task calls the model follows.
MaxTasks == 3

\* Largest clock reading the idle cleanup worker may observe, in multiples
\* of the idle timeout.
MaxTime == 2

\* Lines the Claude CLI streams while a dispatcher in dev mode relays them.
MaxLines == 2

\* Length of the comment texts, in units.
MaxText == 3

\* Number of comma-separated entries of a pool setting.
MaxEntries == 2

\* -------------------------------------------------------------- constants
\* Container names that occur in a CONTAINER_POOL setting.
PoolNames == {"eamonn", "harry"}

\* What config.get_container_pool_list() returns for CONTAINER_POOL set to
\* "," and to "eamonn,harry": the non-empty names in the configured order.
PoolLists == {<< >>, <<"eamonn", "harry">>}

VARIABLE container_pool \* the list config.get_container_pool_list() returns

Pool == container_pool

Slots == {Pool[i] : i \in 1..Len(Pool)}

\* Repositories tasks arrive for.
Repos == {"org/single", "org/normal"}

\* The DEVS.yml at the root of each repository (as the tests write it).
DevsYml == [r \in Repos |-> [single_queue |-> (r = "org/single")]]

\* config.container_timeout_minutes default.
container_timeout_minutes == 30

\* float('inf'), the initial min_queue_size of queue_task.
Inf == -1

\* Clock readings (minutes since start) of datetime.now().
Clock == {t * container_timeout_minutes : t \in 0..MaxTime}

NoTask == [task_id |-> 0, repo_name |-> "none", is_test |-> FALSE]

\* Fault variant of single_queue_repos: a table that binds every repository
\* to the first configured container.
BoundToFirstSlot == [r \in Repos |-> "eamonn"]

\* The pool object holds no repository-affinity table: __init__ creates
\* running_containers, _lock, container_queues and container_workers only,
\* and no method writes a single_queue_repos attribute.
single_queue_repos == [r \in {} |-> "none"]

\* The length of the raw output an error comment quotes at most.
StdoutQuoteLimit == 2000

\* What a worker subprocess has written to stdout when it ends: one JSON
\* value, or text that is no JSON and longer than what an error comment
\* quotes.
Stdouts == {[json |-> TRUE, len |-> StdoutQuoteLimit + 1],
            [json |-> FALSE, len |-> StdoutQuoteLimit + 1]}

VARIABLES
    container_queues,   \* slot -> FIFO of QueuedTask (asyncio.Queue items)
    unfinished,         \* slot -> asyncio.Queue unfinished-task counter
    running_containers, \* slot -> [repo_path, last_used], a partial map
    repoExists,         \* repo -> the cached working copy exists on disk
    pc,                 \* slot -> where its container worker is suspended
    cur,                \* slot -> the task its worker is processing
    inflight,           \* slot -> worker subprocesses launched, not exited/killed
    accepted,           \* history: the accepted queue_task calls, in order
    started,            \* history: slot -> task ids its worker dequeued
    finished,           \* history: slot -> task ids whose iteration completed
    comments,           \* history: slot -> comments tried for its latest task
    outcome,            \* history: slot -> how its latest task went
    cleanupCalls,       \* history: slots _cleanup_container was invoked for
    reaper,             \* the idle cleanup worker: "sleep" or "cancelled"
    shutdown,           \* progress of shutdown(): 0 not called .. Len(Pool)+2 returned
    returns,            \* history: the values the queue_task calls returned
    quoted,             \* slot -> length of raw output in the comment being posted
    worker_in,          \* worker subprocess: its stdin and its environment
    wpc,                \* worker subprocess: where it is
    result,             \* worker subprocess: what _process_task_subprocess returned
    stdout,             \* worker subprocess: what it has written to stdout
    exit_status,        \* worker subprocess: << >> while running, then <<code>>
    cache,              \* one call of _ensure_repository_cloned and its result
    cleanup_errors,     \* log: slots whose _cleanup_container logged an error
    thread,             \* the last comment posted to a GitHub thread, and by whom
    config              \* a WebhookConfig: its environment and what a call returned

workerVars == <<worker_in, wpc, result, stdout, exit_status>>

cacheVars == <<cache>>

logVars == <<cleanup_errors>>

auxVars == <<thread, config>>

poolVars == <<container_pool, container_queues, unfinished, running_containers,
              repoExists, pc, cur, inflight, accepted, started, finished,
              comments, outcome, cleanupCalls, reaper, shutdown, returns, quoted>>

vars == <<poolVars, workerVars, cacheVars, logVars, auxVars>>

\* ------------------------------------------------------------------ Init
NoResult == << >>

\* No worker subprocess is followed.
WorkerIdle ==
    /\ worker_in = << >>
    /\ wpc = "idle"
    /\ result = NoResult
    /\ stdout = << >>
    /\ exit_status = << >>

\* ContainerPool.__init__ but for running_containers: one empty queue and
\* one worker per configured container, the cleanup worker started.
PoolFresh ==
    /\ container_pool \in PoolLists
    /\ container_queues = [s \in Slots |-> << >>]
    /\ unfinished = [s \in Slots |-> 0]
    /\ repoExists \in [Repos -> BOOLEAN]
    /\ pc = [s \in Slots |-> "get"]
    /\ cur = [s \in Slots |-> NoTask]
    /\ inflight = [s \in Slots |-> 0]
    /\ accepted = << >>
    /\ started = [s \in Slots |-> << >>]
    /\ finished = [s \in Slots |-> << >>]
    /\ comments = [s \in Slots |-> << >>]
    /\ outcome = [s \in Slots |-> "none"]
    /\ cleanupCalls = << >>
    /\ reaper = "sleep"
    /\ shutdown = 0
    /\ returns = << >>
    /\ quoted = [s \in Slots |-> 0]
    /\ cleanup_errors = << >>

\* self.running_containers = {}.
PoolInit == PoolFresh /\ running_containers = [s \in {} |-> NoTask]

\* No call of _ensure_repository_cloned is followed step by step.
CacheIdle == cache = << >>

NoComment == << >>

NoConfig == << >>

\* No comment text and no WebhookConfig is followed.
AuxIdle == thread = NoComment /\ config = NoConfig

Init == PoolInit /\ WorkerIdle /\ CacheIdle /\ AuxIdle

\* ------------------------------------------------------------ queue_task
\* `queue_size < min_queue_size`, min_queue_size starting at float('inf').
\* Fault variant of Less: `<=` in place of `<`.
LessOrEqual(q, min) == min = Inf \/ q <= min

\* Fault variant of Less: min_queue_size starts at a finite number no queue
\* is shorter than.
LessFinite(q, min) == q < min

Less(q, min) == min = Inf \/ q < min

\* The loop over config.get_container_pool_list(): the first slot whose
\* queue is strictly shorter than every one before it.
RECURSIVE ScanPool(_, _, _)
ScanPool(i, best, min) ==
    IF i > Len(Pool) THEN best
    ELSE LET queue_size == Len(container_queues[Pool[i]])
         IN  IF Less(queue_size, min)
             THEN ScanPool(i + 1, Pool[i], queue_size)
             ELSE ScanPool(i + 1, best, min)

\* Fault variant of best_container: the scan of a call that ran before an
\* earlier call had enqueued, when every queue was still empty.
best_container_stale == IF Pool = << >> THEN "None" ELSE Pool[1]

best_container == ScanPool(1, "None", Inf)

\* Fault variant of QueuePut: the item is put on the queue twice.
QueuePutTwice(q, item) == Append(Append(q, item), item)

\* asyncio.Queue.put(item) on an unbounded queue: never waits.
QueuePut(q, item) == Append(q, item)

\* queue_task(task_id, repo_name, task_description, event): no suspension
\* between measuring the queues and put() on the unbounded queue.  With no
\* container configured the loop leaves best_container None and the call
\* returns False.
queue_task(repo_name, is_test) ==
    /\ Len(returns) < MaxTasks
    /\ IF best_container = "None"
       THEN /\ returns' = Append(returns, FALSE)
            /\ UNCHANGED <<container_queues, unfinished, accepted>>
       ELSE LET task_id == Len(accepted) + 1
                queued_task == [task_id |-> task_id, repo_name |-> repo_name,
                                is_test |-> is_test]
            IN  /\ container_queues' = [container_queues EXCEPT
                                          ![best_container] = QueuePut(@, queued_task)]
                /\ unfinished' = [unfinished EXCEPT ![best_container] = @ + 1]
                /\ accepted' = Append(accepted,
                                      [repo_name |-> repo_name, slot |-> best_container])
                /\ returns' = Append(returns, TRUE)
    /\ UNCHANGED <<running_containers, repoExists, pc, cur, inflight, started,
                   finished, comments, outcome, cleanupCalls, reaper, shutdown>>
    /\ UNCHANGED <<container_pool, quoted, workerVars, cacheVars, logVars, auxVars>>

\* --------------------------------------------------- the container worker
\* asyncio.Queue.get(): the oldest item leaves the queue.
\* Fault variant of QueueGet: the newest item leaves the queue.
QueueGetLast(q) == [item |-> q[Len(q)], rest |-> SubSeq(q, 1, Len(q) - 1)]

\* Fault variant of QueueGet: the item is read and stays queued.
QueuePeek(q) == [item |-> Head(q), rest |-> q]

QueueGet(q) == [item |-> Head(q), rest |-> Tail(q)]

\* asyncio.Queue.task_done() in the worker's `finally`.
\* Fault variant of TaskDone: the call is missing.
TaskDoneSkipped(s) == unfinished' = unfinished

TaskDone(s) == unfinished' = [unfinished EXCEPT ![s] = @ - 1]

\* _process_task_subprocess returns (or raises an Exception the worker loop
\* logs), the `finally` marks the task done and the loop awaits get() again.
Complete(s) ==
    /\ pc' = [pc EXCEPT ![s] = "get"]
    /\ cur' = [cur EXCEPT ![s] = NoTask]
    /\ TaskDone(s)
    /\ finished' = [finished EXCEPT ![s] = Append(@, cur[s].task_id)]
    /\ comments' = comments

\* Fault variant of Report: the error escapes every handler and ends the
\* worker.
ReportRaises(s, kind) ==
    /\ pc' = [pc EXCEPT ![s] = "cancelled"]
    /\ cur' = [cur EXCEPT ![s] = NoTask]
    /\ TaskDone(s)
    /\ UNCHANGED <<finished, comments>>

\* Fault variant of Report: the is_test early return is missing.
ReportAlways(s, kind) ==
    /\ pc' = [pc EXCEPT ![s] = kind]
    /\ comments' = [comments EXCEPT ![s] = Append(@, kind)]
    /\ UNCHANGED <<cur, unfinished, finished>>

\* await self._post_subprocess_error_to_github(queued_task, message): a test
\* event returns at once without suspending; otherwise the worker suspends
\* in the GitHub call.  `kind` names the message and the code that follows.
Report(s, kind) ==
    IF cur[s].is_test
    THEN Complete(s)
    ELSE /\ pc' = [pc EXCEPT ![s] = kind]
         /\ comments' = [comments EXCEPT ![s] = Append(@, kind)]
         /\ UNCHANGED <<cur, unfinished, finished>>

\* Fault variant of Launch: the subprocess is started and not awaited.
LaunchDetached(s) ==
    /\ inflight' = [inflight EXCEPT ![s] = @ + 1]
    /\ Complete(s)
    /\ UNCHANGED outcome

\* asyncio.create_subprocess_exec(worker ...) then communicate() under
\* wait_for: the worker subprocess is in flight and the worker suspends.
Launch(s) ==
    /\ inflight' = [inflight EXCEPT ![s] = @ + 1]
    /\ pc' = [pc EXCEPT ![s] = "wait"]
    /\ UNCHANGED <<cur, unfinished, finished, comments, outcome>>

\* The worker's get() returns a task; _process_task_subprocess starts and
\* _ensure_repository_cloned runs to its first git subprocess.
container_worker_get(s) ==
    /\ pc[s] = "get"
    /\ container_queues[s] # << >>
    /\ LET got == QueueGet(container_queues[s])
       IN  /\ container_queues' = [container_queues EXCEPT ![s] = got.rest]
           /\ cur' = [cur EXCEPT ![s] = got.item]
           /\ started' = [started EXCEPT ![s] = Append(@, got.item.task_id)]
           /\ pc' = [pc EXCEPT ![s] =
                        IF repoExists[got.item.repo_name] THEN "pull" ELSE "clone"]
    /\ comments' = [comments EXCEPT ![s] = << >>]
    /\ outcome' = [outcome EXCEPT ![s] = "running"]
    /\ UNCHANGED <<unfinished, running_containers, repoExists, inflight, accepted,
                   finished, cleanupCalls, reaper, shutdown>>
    /\ UNCHANGED <<container_pool, returns, quoted, workerVars, cacheVars, logVars, auxVars>>

\* `git pull` ended.  Success: the copy is kept (cloned again only if it has
\* vanished meanwhile).  Failure: rmtree and fall through to the clone; an
\* rmtree that fails too is re-raised to _process_task_subprocess.
ensure_pull_done(s, ok) ==
    /\ pc[s] = "pull"
    /\ LET r == cur[s].repo_name
       IN  IF ok
           THEN /\ UNCHANGED repoExists
                /\ IF repoExists[r]
                   THEN Launch(s)
                   ELSE /\ pc' = [pc EXCEPT ![s] = "clone"]
                        /\ UNCHANGED <<cur, unfinished, finished, comments,
                                       outcome, inflight>>
           ELSE IF repoExists[r]
                THEN /\ repoExists' = [repoExists EXCEPT ![r] = FALSE]
                     /\ pc' = [pc EXCEPT ![s] = "clone"]
                     /\ UNCHANGED <<cur, unfinished, finished, comments,
                                    outcome, inflight>>
                ELSE /\ UNCHANGED <<repoExists, inflight>>
                     /\ outcome' = [outcome EXCEPT ![s] = "clone_failed"]
                     /\ Report(s, "post_exc")
    /\ UNCHANGED <<container_queues, running_containers, accepted, started,
                   cleanupCalls, reaper, shutdown>>
    /\ UNCHANGED <<container_pool, returns, quoted, workerVars, cacheVars, logVars, auxVars>>

\* Fault variant of ensure_clone_done: a failed clone is logged and the
\* worker subprocess is launched all the same.
ensure_clone_done_unchecked(s, ok) ==
    /\ pc[s] = "clone"
    /\ IF ok
       THEN repoExists' = [repoExists EXCEPT ![cur[s].repo_name] = TRUE]
       ELSE UNCHANGED repoExists
    /\ Launch(s)
    /\ UNCHANGED <<container_queues, running_containers, accepted, started,
                   cleanupCalls, reaper, shutdown>>
    /\ UNCHANGED <<container_pool, returns, quoted, workerVars, cacheVars, logVars, auxVars>>

\* `git clone` ended: returncode 0 leaves the copy in place and the worker
\* subprocess is launched; otherwise "Git clone failed" is raised.
ensure_clone_done(s, ok) ==
    /\ pc[s] = "clone"
    /\ IF ok
       THEN /\ repoExists' = [repoExists EXCEPT ![cur[s].repo_name] = TRUE]
            /\ Launch(s)
       ELSE /\ UNCHANGED <<repoExists, inflight>>
            /\ outcome' = [outcome EXCEPT ![s] = "clone_failed"]
            /\ Report(s, "post_exc")
    /\ UNCHANGED <<container_queues, running_containers, accepted, started,
                   cleanupCalls, reaper, shutdown>>
    /\ UNCHANGED <<container_pool, returns, quoted, workerVars, cacheVars, logVars, auxVars>>

\* Fault variant of Quote: the raw output is quoted in full.
QuoteAll(len) == len

\* stdout.decode('utf-8')[:2000]: the length of the quoted prefix of a raw
\* output of length len.
Quote(len) == IF len < StdoutQuoteLimit THEN len ELSE StdoutQuoteLimit

\* communicate() returns within the timeout.  Exit 0 with JSON on stdout:
\* done.  Exit 0 without JSON (stdout_len characters): an error comment
\* that quotes the output, then an Exception the outer handler reports
\* again.  Non-zero exit: an error comment.
subprocess_exit(s, returncode, stdout_json, stdout_len) ==
    /\ pc[s] = "wait"
    /\ inflight' = [inflight EXCEPT ![s] = @ - 1]
    /\ IF returncode = 0
       THEN IF stdout_json
            THEN /\ outcome' = [outcome EXCEPT ![s] = "success"]
                 /\ Complete(s)
                 /\ UNCHANGED quoted
            ELSE /\ outcome' = [outcome EXCEPT ![s] = "malformed"]
                 /\ Report(s, "post_parse")
                 /\ quoted' = [quoted EXCEPT ![s] =
                                   IF cur[s].is_test THEN @ ELSE Quote(stdout_len)]
       ELSE /\ outcome' = [outcome EXCEPT ![s] = "exit_failed"]
            /\ Report(s, "post_exit")
            /\ UNCHANGED quoted
    /\ UNCHANGED <<container_queues, running_containers, repoExists, accepted,
                   started, cleanupCalls, reaper, shutdown>>
    /\ UNCHANGED <<container_pool, returns, workerVars, cacheVars, logVars, auxVars>>

\* Fault variant of subprocess_timeout: process.kill() is missing.
subprocess_timeout_no_kill(s) ==
    /\ pc[s] = "wait"
    /\ pc' = [pc EXCEPT ![s] = "killwait"]
    /\ outcome' = [outcome EXCEPT ![s] = "timeout"]
    /\ UNCHANGED <<container_queues, unfinished, running_containers, repoExists,
                   cur, inflight, accepted, started, finished, comments,
                   cleanupCalls, reaper, shutdown>>
    /\ UNCHANGED <<container_pool, returns, quoted, workerVars, cacheVars, logVars, auxVars>>

\* asyncio.TimeoutError from wait_for: process.kill(), then await
\* process.wait().
subprocess_timeout(s) ==
    /\ pc[s] = "wait"
    /\ inflight' = [inflight EXCEPT ![s] = @ - 1]
    /\ pc' = [pc EXCEPT ![s] = "killwait"]
    /\ outcome' = [outcome EXCEPT ![s] = "timeout"]
    /\ UNCHANGED <<container_queues, unfinished, running_containers, repoExists,
                   cur, accepted, started, finished, comments, cleanupCalls,
                   reaper, shutdown>>
    /\ UNCHANGED <<container_pool, returns, quoted, workerVars, cacheVars, logVars, auxVars>>

\* process.wait() returns for the killed subprocess; the timeout comment
\* is posted.
subprocess_reaped(s) ==
    /\ pc[s] = "killwait"
    /\ Report(s, "post_timeout")
    /\ UNCHANGED <<container_queues, running_containers, repoExists, inflight,
                   accepted, started, outcome, cleanupCalls, reaper, shutdown>>
    /\ UNCHANGED <<container_pool, returns, quoted, workerVars, cacheVars, logVars, auxVars>>

\* Fault variant of post_done: a post that failed is tried again.
post_done_retry(s, posted) ==
    /\ pc[s] \in {"post_parse", "post_exit", "post_timeout", "post_exc"}
    /\ IF posted
       THEN /\ IF pc[s] = "post_parse"
               THEN Report(s, "post_exc")
               ELSE Complete(s)
            /\ quoted' = [quoted EXCEPT ![s] = 0]
       ELSE /\ comments' = [comments EXCEPT ![s] = Append(@, pc[s])]
            /\ UNCHANGED <<pc, cur, unfinished, finished, quoted>>
    /\ UNCHANGED <<container_queues, running_containers, repoExists, inflight,
                   accepted, started, outcome, cleanupCalls, reaper, shutdown>>
    /\ UNCHANGED <<container_pool, returns, workerVars, cacheVars, logVars, auxVars>>

\* _post_subprocess_error_to_github returns; a failed post (`posted` false)
\* is logged inside it.  After the parse-failure comment the Exception
\* raised at once reaches the outer handler, which posts again: the name of
\* the exception and the message of the JSON decoder, none of the output.
post_done(s, posted) ==
    /\ pc[s] \in {"post_parse", "post_exit", "post_timeout", "post_exc"}
    /\ IF pc[s] = "post_parse"
       THEN Report(s, "post_exc")
       ELSE Complete(s)
    /\ quoted' = [quoted EXCEPT ![s] = 0]
    /\ UNCHANGED <<container_queues, running_containers, repoExists, inflight,
                   accepted, started, outcome, cleanupCalls, reaper, shutdown>>
    /\ UNCHANGED <<container_pool, returns, workerVars, cacheVars, logVars, auxVars>>

\* ------------------------------------------------ the idle cleanup worker
\* Pool members of S in pool order.
SlotsInOrder(S) == SelectSeq(Pool, LAMBDA s : s \in S)

\* Fault variant of IsIdle: every entry counts as idle.
IsIdleAlways(info, now) == TRUE

\* `now - info["last_used"] > idle_timeout`.
IsIdle(info, now) == now - info.last_used > container_timeout_minutes

\* The entries of running_containers collected for cleanup at `now`.
IdleContainers(table, now) == {s \in DOMAIN table : IsIdle(table[s], now)}

\* Fault variant of Reaped: the entries stay in the table.
ReapedKept(table, idle) == table

\* `del self.running_containers[dev_name]` for every collected entry.
Reaped(table, idle) == [s \in DOMAIN table \ idle |-> table[s]]

\* Fault variant of SweepCalls: an error of _cleanup_container leaves the
\* loop, and the containers after the failing one are not visited.
SweepCallsUntilError(idle, failing) ==
    LET order == SlotsInOrder(idle)
        upto == {i \in 1..Len(order) :
                    \A j \in 1..(i - 1) : order[j] \notin failing}
    IN  SubSeq(order, 1, Cardinality(upto))

\* The containers the loop over idle_containers calls _cleanup_container
\* for, in order, when the cleanup of those in `failing` fails:
\* _cleanup_container catches every Exception and logs it, so the loop
\* visits them all.
SweepCalls(idle, failing) == SlotsInOrder(idle)

\* Fault variant of idle_cleanup_sweep: every pool member is cleaned up,
\* marked running or not.
idle_cleanup_sweep_all(now) ==
    /\ reaper = "sleep"
    /\ cleanupCalls' = cleanupCalls \o Pool
    /\ running_containers' = Reaped(running_containers, Slots)
    /\ UNCHANGED <<container_queues, unfinished, repoExists, pc, cur, inflight,
                   accepted, started, finished, comments, outcome, reaper,
                   shutdown>>
    /\ UNCHANGED <<container_pool, returns, quoted, workerVars, cacheVars, logVars, auxVars>>

\* One pass of _idle_cleanup_worker after its sleep, under self._lock, with
\* `now` the clock reading: _cleanup_container is called for every running
\* container idle for longer than the timeout, and its entry is dropped
\* from running_containers.  Stopping the container or removing the
\* workspace may fail for any of them (`failing`): _cleanup_container logs
\* the error and returns.
idle_cleanup_sweep(now) ==
    /\ reaper = "sleep"
    /\ LET idle_containers == IdleContainers(running_containers, now)
       IN  \E failing \in SUBSET idle_containers :
               LET calls == SweepCalls(idle_containers, failing)
                   visited == {calls[i] : i \in DOMAIN calls}
               IN  /\ cleanupCalls' = cleanupCalls \o calls
                   /\ running_containers' = Reaped(running_containers, visited)
                   /\ cleanup_errors' =
                          cleanup_errors \o SlotsInOrder(visited \cap failing)
    /\ UNCHANGED <<container_queues, unfinished, repoExists, pc, cur, inflight,
                   accepted, started, finished, comments, outcome, reaper,
                   shutdown>>
    /\ UNCHANGED <<container_pool, returns, quoted, workerVars, cacheVars, auxVars>>

\* -------------------------------------------------------------- get_status
\* The dictionary get_status returns, built under self._lock without a
\* suspension: the size of every queue, repo_path and last_used of every
\* entry of running_containers, and the length of the pool list.
get_status ==
    [container_queues |->
         [s \in DOMAIN container_queues |-> Len(container_queues[s])],
     running_containers |->
         [s \in DOMAIN running_containers |->
              [repo_path |-> running_containers[s].repo_path,
               last_used |-> running_containers[s].last_used]],
     total_containers |-> Len(Pool)]

\* ---------------------------------------------------------------- shutdown
\* shutdown() starts: the cleanup worker is cancelled and awaited.
shutdown_begin ==
    /\ shutdown = 0
    /\ reaper' = "cancelled"
    /\ shutdown' = 1
    /\ UNCHANGED <<container_queues, unfinished, running_containers, repoExists,
                   pc, cur, inflight, accepted, started, finished, comments,
                   outcome, cleanupCalls>>
    /\ UNCHANGED <<container_pool, returns, quoted, workerVars, cacheVars, logVars, auxVars>>

\* Fault variant of shutdown_cancel_worker: `await worker_task` returns only
\* for a worker that was waiting on its queue.
shutdown_cancel_idle_worker ==
    /\ shutdown \in 1..Len(Pool)
    /\ pc[Pool[shutdown]] = "get"
    /\ pc' = [pc EXCEPT ![Pool[shutdown]] = "cancelled"]
    /\ shutdown' = shutdown + 1
    /\ UNCHANGED <<container_queues, unfinished, running_containers, repoExists,
                   cur, inflight, accepted, started, finished, comments,
                   outcome, cleanupCalls, reaper>>
    /\ UNCHANGED <<container_pool, returns, quoted, workerVars, cacheVars, logVars, auxVars>>

\* worker_task.cancel() and `await worker_task` for the next pool member:
\* CancelledError is raised at the worker's await, passes the `except
\* Exception` handlers, the `finally` marks a task in hand as done and the
\* loop breaks.  A worker subprocess in flight is neither killed nor awaited.
shutdown_cancel_worker ==
    /\ shutdown \in 1..Len(Pool)
    /\ LET s == Pool[shutdown]
       IN  /\ pc' = [pc EXCEPT ![s] = "cancelled"]
           /\ cur' = [cur EXCEPT ![s] = NoTask]
           /\ IF cur[s] # NoTask
              THEN /\ TaskDone(s)
                   /\ outcome' = [outcome EXCEPT ![s] = "cancelled"]
              ELSE UNCHANGED <<unfinished, outcome>>
    /\ shutdown' = shutdown + 1
    /\ UNCHANGED <<container_queues, running_containers, repoExists, inflight,
                   accepted, started, finished, comments, cleanupCalls, reaper>>
    /\ UNCHANGED <<container_pool, returns, quoted, workerVars, cacheVars, logVars, auxVars>>

\* Fault variant of shutdown_cleanup: shutdown() returns without cleaning up
\* the running containers.
shutdown_without_cleanup ==
    /\ shutdown = Len(Pool) + 1
    /\ shutdown' = shutdown + 1
    /\ UNCHANGED <<container_queues, unfinished, running_containers, repoExists,
                   pc, cur, inflight, accepted, started, finished, comments,
                   outcome, cleanupCalls, reaper>>
    /\ UNCHANGED <<container_pool, returns, quoted, workerVars, cacheVars, logVars, auxVars>>

\* The end of shutdown(): under self._lock, _cleanup_container for every
\* entry of running_containers (the entries stay).
shutdown_cleanup ==
    /\ shutdown = Len(Pool) + 1
    /\ \E failing \in SUBSET DOMAIN running_containers :
           /\ cleanupCalls' =
                  cleanupCalls \o SlotsInOrder(DOMAIN running_containers)
           /\ cleanup_errors' = cleanup_errors \o SlotsInOrder(failing)
    /\ shutdown' = shutdown + 1
    /\ UNCHANGED <<container_queues, unfinished, running_containers, repoExists,
                   pc, cur, inflight, accepted, started, finished, comments,
                   outcome, reaper>>
    /\ UNCHANGED <<container_pool, returns, quoted, workerVars, cacheVars, auxVars>>

\* A worker subprocess left behind by a cancelled worker ends by itself.
orphan_exit(s) ==
    /\ pc[s] = "cancelled"
    /\ inflight[s] > 0
    /\ inflight' = [inflight EXCEPT ![s] = @ - 1]
    /\ UNCHANGED <<container_queues, unfinished, running_containers, repoExists,
                   pc, cur, accepted, started, finished, comments, outcome,
                   cleanupCalls, reaper, shutdown>>
    /\ UNCHANGED <<container_pool, returns, quoted, workerVars, cacheVars, logVars, auxVars>>

\* ------------------------------------------- the worker subprocess (child)
\* What the worker finds on its standard input: nothing, text that is not
\* JSON, a JSON object without task_description, one without event, one
\* whose event or devs_options Pydantic rejects, and the payload the pool
\* writes.
StdinPayloads == {"empty", "invalid_json", "no_task_description", "no_event",
                  "bad_event", "bad_devs_options", "valid"}

\* The parameters of ClaudeDispatcher.execute_task after self, and those
\* without a default.
execute_task_params ==
    {"dev_name", "workspace_name", "task_description", "event", "devs_options"}

execute_task_required == {"dev_name", "workspace_name", "task_description", "event"}

\* Variant of worker_call_keywords: the call names workspace_name, as the
\* signature of execute_task does.
signature_keywords ==
    {"dev_name", "workspace_name", "task_description", "event", "devs_options"}

\* The keyword arguments of the worker's call of execute_task.
worker_call_keywords ==
    {"dev_name", "repo_path", "task_description", "event", "devs_options"}

\* Python binds a call by keywords iff every keyword is a parameter and
\* every parameter without default is given; otherwise the call raises
\* TypeError before the function body runs.
CallBinds(keywords) ==
    keywords \subseteq execute_task_params /\ execute_task_required \subseteq keywords

\* Fault variant of ExitCode: the process always exits with 0.
ExitCodeZero(success) == 0

\* sys.exit(0 if result['success'] else 1)
ExitCode(success) == IF success THEN 0 ELSE 1

\* print(json.dumps(output)): one line holding the JSON envelope
\* {success, output, error, task_id, timestamp}.
Envelope(success, error) == [kind |-> "json", success |-> success, error |-> error]

\* print(f"[{dev_name}] {line_str}"): a line that is no JSON.
StreamedLine == [kind |-> "text", success |-> FALSE, error |-> "none"]

RECURSIVE Lines(_)
Lines(n) == IF n = 0 THEN << >> ELSE Append(Lines(n - 1), StreamedLine)

\* json.loads over the whole standard output, as the pool applies it:
\* it parses iff the output is one JSON value.
ParsesAsJson(out) == Len(out) = 1 /\ out[1].kind = "json"

\* worker(): stdin is read and checked, the event and the options are
\* validated.  Each failure raises an Exception inside the `try`.
worker_read_payload ==
    /\ wpc = "start"
    /\ wpc' = IF worker_in.stdin_data = "valid" THEN "process" ELSE "except"
    /\ UNCHANGED <<worker_in, result, stdout, exit_status>>
    /\ UNCHANGED <<poolVars, cacheVars, logVars, auxVars>>

\* _process_task_subprocess of the worker: the repository path is checked,
\* Project and ClaudeDispatcher are created and execute_task is called.
\* Every exception, the TypeError of a call that does not bind included, is
\* turned into a failure result.  A dispatcher that ran has streamed the
\* lines of the Claude CLI to stdout if in dev mode, and returned its
\* TaskResult.
worker_process_task ==
    /\ wpc = "process"
    /\ \E ok \in BOOLEAN, n \in 0..MaxLines :
           IF ~worker_in.repo_path_exists
           THEN /\ result' = [success |-> FALSE, error |-> "no_repo_path"]
                /\ UNCHANGED stdout
           ELSE IF ~worker_in.project_ok
           THEN /\ result' = [success |-> FALSE, error |-> "project"]
                /\ UNCHANGED stdout
           ELSE IF ~worker_in.dispatcher_ok
           THEN /\ result' = [success |-> FALSE, error |-> "dispatcher_init"]
                /\ UNCHANGED stdout
           ELSE IF ~CallBinds(worker_call_keywords)
           THEN /\ result' = [success |-> FALSE, error |-> "TypeError"]
                /\ UNCHANGED stdout
           ELSE /\ result' = [success |-> ok,
                              error |-> IF ok THEN "none" ELSE "task_failed"]
                /\ stdout' = IF worker_in.dev_mode THEN stdout \o Lines(n) ELSE stdout
    /\ wpc' = "output"
    /\ UNCHANGED <<worker_in, exit_status>>
    /\ UNCHANGED <<poolVars, cacheVars, logVars, auxVars>>

\* The result is printed as the JSON envelope and the process exits;
\* SystemExit is no Exception and leaves the `try` uncaught.
worker_output ==
    /\ wpc = "output"
    /\ stdout' = Append(stdout, Envelope(result.success, result.error))
    /\ exit_status' = <<ExitCode(result.success)>>
    /\ wpc' = "exited"
    /\ UNCHANGED <<worker_in, result>>
    /\ UNCHANGED <<poolVars, cacheVars, logVars, auxVars>>

\* `except Exception`: the error envelope is printed and the process exits
\* with 1.
worker_except ==
    /\ wpc = "except"
    /\ stdout' = Append(stdout, Envelope(FALSE, worker_in.stdin_data))
    /\ exit_status' = <<1>>
    /\ wpc' = "exited"
    /\ UNCHANGED <<worker_in, result>>
    /\ UNCHANGED <<poolVars, cacheVars, logVars, auxVars>>

\* A worker subprocess was started: any stdin, any state of the repository
\* path, of the project and of the dispatcher's configuration, dev mode on
\* or off.
WorkerInit ==
    /\ PoolInit
    /\ worker_in \in [stdin_data : StdinPayloads, repo_path_exists : BOOLEAN,
                      project_ok : BOOLEAN, dispatcher_ok : BOOLEAN,
                      dev_mode : BOOLEAN]
    /\ wpc = "start"
    /\ result = NoResult
    /\ stdout = << >>
    /\ exit_status = << >>
    /\ CacheIdle
    /\ AuxIdle

WorkerNext ==
    \/ worker_read_payload
    \/ worker_process_task
    \/ worker_output
    \/ worker_except

\* One run of the worker subprocess.
WorkerSpec == WorkerInit /\ [][WorkerNext]_vars

\* ------------------------------------------- the repository cache (one call)
\* YAML values, tagged with their type.
Absent == [type |-> "absent", val |-> ""]
StrValue(v) == [type |-> "str", val |-> v]
IntValue(v) == [type |-> "int", val |-> v]
BoolValue(v) == [type |-> "bool", val |-> v]

\* The mappings a DEVS.yml may hold: every key absent or present, with a
\* string or with a value of another type; all keys absent is `{}`.
DevsYmlMappings ==
    [default_branch : {Absent, StrValue("develop"), IntValue("123")},
     prompt_extra : {Absent, StrValue("x"), BoolValue("true")},
     single_queue : {Absent, BoolValue("true")},
     unknown_key : {Absent, StrValue("y")}]

NoKeys ==
    [default_branch |-> Absent, prompt_extra |-> Absent,
     single_queue |-> Absent, unknown_key |-> Absent]

\* DEVS.yml of the repository: no such file, text that is no YAML, an empty
\* document, a scalar, or a mapping.
DevsYmlFiles ==
    {[kind |-> k, data |-> NoKeys] :
        k \in {"absent", "unparsable", "empty", "scalar"}}
    \cup {[kind |-> "mapping", data |-> d] : d \in DevsYmlMappings}

\* class DevsOptions(BaseModel): its fields and DevsOptions().
DevsOptionsFields == {"default_branch", "prompt_extra"}

DevsOptionsDefault ==
    [default_branch |-> StrValue("main"), prompt_extra |-> StrValue("")]

NoOptions == [default_branch |-> Absent, prompt_extra |-> Absent]

\* The end of _ensure_repository_cloned: DevsOptions() and, when DEVS.yml
\* exists and yaml.safe_load gives a non-empty mapping, the values of the
\* keys default_branch and prompt_extra assigned as they are.  A file that
\* does not parse, and a scalar (the `in` test is false or the subscript
\* raises TypeError, which is caught), leave the defaults.
LoadDevsOptions(file) ==
    IF file.kind = "mapping"
    THEN [f \in DevsOptionsFields |->
             IF file.data[f] # Absent THEN file.data[f]
                                      ELSE DevsOptionsDefault[f]]
    ELSE DevsOptionsDefault

\* devs_options.model_dump(mode='json'): the values of the fields.
model_dump(options) == [f \in DevsOptionsFields |-> options[f]]

\* DevsOptions.model_validate(data) in the worker subprocess: both fields
\* are `str`, and a value of another type is a validation error.
model_validate(data) == \A f \in DevsOptionsFields : data[f].type = "str"

\* _ensure_repository_cloned is called and runs to its first git
\* subprocess: `git pull` if repo_path exists, else `git clone`.
ensure_repository_cloned_start ==
    /\ cache.pc = "call"
    /\ cache' = [cache EXCEPT !.pc = IF cache.exists THEN "pull" ELSE "clone"]
    /\ UNCHANGED <<poolVars, workerVars, logVars, auxVars>>

\* Fault variant of ensure_pull_returns: a failed pull is logged and the
\* copy on disk is used as it is.
ensure_pull_returns_keep(pull, rmtree_ok) ==
    /\ cache.pc = "pull"
    /\ cache' = [cache EXCEPT !.pc = "returned", !.pull = pull,
                              !.devs_options = LoadDevsOptions(cache.devs_yml)]
    /\ UNCHANGED <<poolVars, workerVars, logVars, auxVars>>

\* `git pull` ended with returncode 0 ("ok"), with another returncode
\* ("nonzero"), or starting or awaiting it raised ("exception").  After a
\* failure shutil.rmtree(repo_path) removes the copy and the clone follows;
\* if the removal fails as well its error is raised to the caller.
ensure_pull_returns(pull, rmtree_ok) ==
    /\ cache.pc = "pull"
    /\ IF pull = "ok"
       THEN IF cache.exists
            THEN cache' = [cache EXCEPT !.pc = "returned", !.pull = pull,
                              !.devs_options = LoadDevsOptions(cache.devs_yml)]
            ELSE cache' = [cache EXCEPT !.pc = "clone", !.pull = pull]
       ELSE IF rmtree_ok
            THEN cache' = [cache EXCEPT !.pc = "clone", !.pull = pull,
                                        !.exists = FALSE,
                                        !.removed = @ + 1]
            ELSE cache' = [cache EXCEPT !.pc = "raised", !.pull = pull]
    /\ UNCHANGED <<poolVars, workerVars, logVars, auxVars>>

\* `git clone` ended: returncode 0 leaves the fresh copy and the call
\* returns; otherwise Exception("Git clone failed") is raised to the caller.
ensure_clone_returns(returncode) ==
    /\ cache.pc = "clone"
    /\ IF returncode = 0
       THEN cache' = [cache EXCEPT !.pc = "returned", !.exists = TRUE,
                                   !.cloned = @ + 1,
                                   !.devs_options = LoadDevsOptions(cache.devs_yml)]
       ELSE cache' = [cache EXCEPT !.pc = "raised"]
    /\ UNCHANGED <<poolVars, workerVars, logVars, auxVars>>

\* _process_task_subprocess puts devs_options.model_dump(mode='json') into
\* the payload and the worker subprocess validates it.
worker_validates_options ==
    /\ cache.pc = "returned"
    /\ cache' = [cache EXCEPT !.pc =
                     IF model_validate(model_dump(cache.devs_options))
                     THEN "validated" ELSE "rejected"]
    /\ UNCHANGED <<poolVars, workerVars, logVars, auxVars>>

\* A call for a repository whose copy exists or not and whose DEVS.yml is
\* any of the files.
CacheInit ==
    /\ PoolInit
    /\ WorkerIdle
    /\ AuxIdle
    /\ cache \in [pc : {"call"}, exists : BOOLEAN, devs_yml : DevsYmlFiles,
                   pull : {"none"}, removed : {0}, cloned : {0},
                   devs_options : {NoOptions}]

CacheNext ==
    \/ ensure_repository_cloned_start
    \/ \E pull \in {"ok", "nonzero", "exception"}, rmtree_ok \in BOOLEAN :
           ensure_pull_returns(pull, rmtree_ok)
    \/ \E returncode \in {0, 1} : ensure_clone_returns(returncode)
    \/ worker_validates_options

CacheSpec == CacheInit /\ [][CacheNext]_vars

\* --------------------------------------------- comments and @mentions
\* A comment text, unit by unit: "@", the user name the handler watches for
\* as it is configured ("bot") or in another case ("BOT"), a letter and a
\* blank.
TextUnits == {"@", "bot", "BOT", "x", " "}

\* The units made of \w characters.
WordUnits == {"bot", "BOT", "x"}

Texts == UNION {[1..n -> TextUnits] : n \in 0..MaxText}

\* rf"@{re.escape(target_user)}\b" with re.IGNORECASE matches at unit i.
MentionAt(text, i) ==
    /\ text[i] = "@"
    /\ i + 1 <= Len(text)
    /\ text[i + 1] \in {"bot", "BOT"}
    /\ i + 2 <= Len(text) => text[i + 2] \notin WordUnits

\* WebhookEvent.extract_mentions for one text source: the text if the
\* pattern is found in it.
extract_mentions(text) ==
    IF \E i \in 1..Len(text) : MentionAt(text, i) THEN <<text>> ELSE << >>

\* rf"(?<!@)@{re.escape(mentioned_user)}\b" with re.IGNORECASE matches at
\* unit i: a mention not preceded by another "@".
SanitizerMatchAt(text, i) ==
    /\ MentionAt(text, i)
    /\ i > 1 => text[i - 1] # "@"

\* pattern.sub(mentioned_user, comment) from unit i on: the matches are
\* taken from left to right and replaced by the user name as configured.
RECURSIVE sub_from(_, _)
sub_from(comment, i) ==
    IF i > Len(comment) THEN << >>
    ELSE IF SanitizerMatchAt(comment, i)
         THEN <<"bot">> \o sub_from(comment, i + 2)
         ELSE <<comment[i]>> \o sub_from(comment, i + 1)

sanitize_outgoing_comment(comment) == sub_from(comment, 1)

\* The comment _handle_task_failure builds: the error message stands on
\* lines of its own, between a code fence and the closing sentence.
task_failure_comment(error_msg) == <<" ">> \o error_msg \o <<" ">>

\* The comment _post_subprocess_error_to_github builds: the error message
\* between two blank lines.
subprocess_error_comment(error_message) == <<" ">> \o error_message \o <<" ">>

\* comment_on_issue / comment_on_pr with `text`, made by `by`, for the one
\* task followed; nothing for a test event, and nothing reaches the thread
\* when the call fails (the handlers log the exception).
PostComment(by, is_test, sent, text) ==
    /\ thread = NoComment
    /\ thread' = IF is_test \/ ~sent THEN thread ELSE [by |-> by, text |-> text]
    /\ UNCHANGED <<poolVars, workerVars, cacheVars, logVars, config>>

\* ClaudeDispatcher._handle_task_completion, in the worker subprocess.
handle_task_completion(is_test, sent, claude_output) ==
    PostComment("completion", is_test, sent,
                sanitize_outgoing_comment(claude_output))

\* ClaudeDispatcher._handle_task_failure, in the worker subprocess.
handle_task_failure(is_test, sent, error_msg) ==
    PostComment("failure", is_test, sent,
                sanitize_outgoing_comment(task_failure_comment(error_msg)))

\* ContainerPool._post_subprocess_error_to_github, in the pool: the error
\* message quotes what the worker subprocess wrote (its stdout, its stderr,
\* its `error` field) or the text of an exception.
post_subprocess_error_to_github(is_test, sent, error_message) ==
    PostComment("pool", is_test, sent, subprocess_error_comment(error_message))

\* Comments of any text, from the three places that post one.
CommentInit == PoolInit /\ WorkerIdle /\ CacheIdle /\ AuxIdle

CommentNext ==
    \E is_test \in BOOLEAN, sent \in BOOLEAN, text \in Texts :
        \/ handle_task_completion(is_test, sent, text)
        \/ handle_task_failure(is_test, sent, text)
        \/ post_subprocess_error_to_github(is_test, sent, text)

CommentSpec == CommentInit /\ [][CommentNext]_vars

\* ------------------------------------------------------ WebhookConfig
\* The entries a pool setting is made of, between its commas.
EntryTexts == {"", "eamonn", " harry "}

\* str.strip.
strip(entry) == IF entry = " harry " THEN "harry" ELSE entry

\* A setting split at its commas: the empty string is the one entry "".
PoolSettings == UNION {[1..n -> EntryTexts] : n \in 1..MaxEntries}

\* [container.strip() for container in setting.split(',') if container.strip()]
split_pool(setting) ==
    SelectSeq([i \in 1..Len(setting) |-> strip(setting[i])], LAMBDA e : e # "")

\* WebhookConfig.get_container_pool_list for the container_pool setting.
get_container_pool_list(container_pool_setting) ==
    IF container_pool_setting = <<"">>
    THEN <<"eamonn", "harry", "darren">>
    ELSE split_pool(container_pool_setting)

\* The methods of WebhookConfig that return a pool: the class has no field
\* for a test or a Claude pool and no method that picks a pool by task type.
WebhookConfigPoolMethods == {"get_container_pool_list"}

NoReturn == [method |-> "none", task_type |-> "none", raised |-> "none", value |-> << >>]

\* config.<method>(...): an attribute the class does not have raises
\* AttributeError.
config_call(method, task_type) ==
    /\ config # NoConfig
    /\ config.returned = NoReturn
    /\ config' = [config EXCEPT !.returned =
           IF method \in WebhookConfigPoolMethods
           THEN [method |-> method, task_type |-> task_type, raised |-> "none",
                 value |-> get_container_pool_list(config.CONTAINER_POOL)]
           ELSE [method |-> method, task_type |-> task_type,
                 raised |-> "AttributeError", value |-> << >>]]
    /\ UNCHANGED <<poolVars, workerVars, cacheVars, logVars, thread>>

\* The task types a pool is asked for.
TaskTypes == {"tests", "claude", "unknown"}

\* A WebhookConfig built in an environment with any three pool settings,
\* and the pool made from it.
ConfigInit ==
    /\ config \in [CONTAINER_POOL : PoolSettings, TEST_CONTAINER_POOL : PoolSettings,
                    CLAUDE_CONTAINER_POOL : PoolSettings, returned : {NoReturn}]
    /\ PoolFresh
    /\ container_pool = get_container_pool_list(config.CONTAINER_POOL)
    /\ repoExists = [r \in Repos |-> TRUE]
    /\ running_containers = [s \in {} |-> NoTask]
    /\ WorkerIdle
    /\ CacheIdle
    /\ thread = NoComment

ConfigNext ==
    \/ config_call("get_container_pool_list", "none")
    \/ config_call("get_test_container_pool_list", "none")
    \/ config_call("get_claude_container_pool_list", "none")
    \/ \E task_type \in TaskTypes : config_call("get_pool_for_task_type", task_type)

ConfigSpec == ConfigInit /\ [][ConfigNext]_vars

\* ------------------------------------------------------- specifications
WorkerStep(s) ==
    /\ s \in Slots
    /\ \/ container_worker_get(s)
       \/ \E ok \in BOOLEAN : ensure_pull_done(s, ok)
       \/ \E ok \in BOOLEAN : ensure_clone_done(s, ok)
       \/ \E returncode \in {0, 1}, out \in Stdouts :
              subprocess_exit(s, returncode, out.json, out.len)
       \/ subprocess_timeout(s)
       \/ subprocess_reaped(s)
       \/ \E posted \in BOOLEAN : post_done(s, posted)

Running ==
    \/ \E repo_name \in Repos, is_test \in BOOLEAN : queue_task(repo_name, is_test)
    \/ \E s \in Slots : WorkerStep(s)
    \/ \E now \in Clock : idle_cleanup_sweep(now)

Stopping ==
    \/ shutdown_begin
    \/ shutdown_cancel_worker
    \/ shutdown_cleanup
    \/ \E s \in Slots : orphan_exit(s)

Next == Running \/ Stopping

Spec == Init /\ [][Next]_vars

\* The pool while shutdown() is not called.  The event loop resumes every
\* worker whose awaited operation has ended, and each awaited operation
\* ends: the git commands and the GitHub call return, the worker subprocess
\* exits or wait_for times out.
LiveSpec == Init /\ [][Running]_vars /\ \A s \in PoolNames : WF_vars(WorkerStep(s))

\* The cleanup worker alone, over every table of running containers: an
\* entry holds the repository path and the time of last use.
RunningTables ==
    UNION {[S -> [repo_path : Repos, last_used : Clock]] : S \in SUBSET Slots}

ReaperInit ==
    /\ PoolFresh
    /\ running_containers \in RunningTables
    /\ WorkerIdle
    /\ CacheIdle
    /\ AuxIdle

ReaperNext == \E now \in Clock : idle_cleanup_sweep(now)

ReaperSpec == ReaperInit /\ [][ReaperNext]_vars

\* The pool of two containers with shutdown() called at any moment, started
\* with "harry" marked running and used last at the latest clock reading,
\* so that no sweep finds it idle, and "eamonn" not marked.
ShutdownInit ==
    /\ PoolFresh
    /\ Pool # << >>
    /\ repoExists = [r \in Repos |-> r = "org/single"]
    /\ running_containers =
           [s \in {"harry"} |->
                [repo_path |-> "org/normal",
                 last_used |-> MaxTime * container_timeout_minutes]]
    /\ WorkerIdle
    /\ CacheIdle
    /\ AuxIdle

ShutdownSpec == ShutdownInit /\ [][Next]_vars

\* ------------------------------------------------------------ properties
Range(f) == {f[i] : i \in 1..Len(f)}

IsPrefix(a, b) == Len(a) <= Len(b) /\ SubSeq(b, 1, Len(a)) = a

\* Task ids queue_task put on slot s, in the order of the calls.
RECURSIVE EnqueueOrderUpTo(_, _)
EnqueueOrderUpTo(s, n) ==
    IF n = 0 THEN << >>
    ELSE IF accepted[n].slot = s
         THEN Append(EnqueueOrderUpTo(s, n - 1), n)
         ELSE EnqueueOrderUpTo(s, n - 1)

EnqueueOrder(s) == EnqueueOrderUpTo(s, Len(accepted))

QueuedIds(s) == [k \in 1..Len(container_queues[s]) |-> container_queues[s][k].task_id]

\* C1: at every instant every slot has at most one worker subprocess in
\* flight (launched, neither exited nor killed).
C1_AtMostOneExchange == \A s \in Slots : inflight[s] <= 1

\* A slot's second task has its subprocess in flight while the other slot
\* runs one too.
C1_Witness ==
    \E s, t \in Slots :
        /\ s # t
        /\ inflight[s] = 1 /\ Len(started[s]) = 2 /\ pc[s] = "wait"
        /\ inflight[t] = 1

\* C2: on each slot the tasks are taken in the order queue_task put them
\* there, and a task is taken only when every task taken before it on that
\* slot has completed; slots are independent of each other.
C2_FifoPerSlot ==
    \A s \in Slots :
        /\ IsPrefix(started[s], EnqueueOrder(s))
        /\ IsPrefix(finished[s], started[s])
        /\ Len(started[s]) - Len(finished[s]) <= 1
        /\ inflight[s] = 1 /\ pc[s] = "wait" => Len(finished[s]) = Len(started[s]) - 1

\* Tasks 1 and 3 were put on one slot and task 2 on the other; the first
\* slot has completed task 1 and is executing task 3 while task 2 is still
\* queued.
C2_Witness ==
    \E s, t \in Slots :
        /\ s # t
        /\ EnqueueOrder(s) = <<1, 3>> /\ started[s] = <<1, 3>> /\ finished[s] = <<1>>
        /\ pc[s] = "wait"
        /\ QueuedIds(t) = <<2>>

\* C3: every accepted task is, at any time, either once in the queue of the
\* slot it was put on or was dequeued once, by that slot's worker.
C3_ConsumedOnce ==
    \A i \in 1..Len(accepted) :
        LET taken  == {<<s, k>> \in Slots \X (1..MaxTasks + 1) :
                          k <= Len(started[s]) /\ started[s][k] = i}
            queued == {<<s, k>> \in Slots \X (1..MaxTasks + 1) :
                          k <= Len(container_queues[s])
                          /\ container_queues[s][k].task_id = i}
        IN  /\ Cardinality(taken) + Cardinality(queued) = 1
            /\ \A x \in taken \cup queued : x[1] = accepted[i].slot

\* Every accepted task has been consumed, on both slots.
C3_Witness ==
    /\ Len(accepted) = MaxTasks
    /\ \A s \in Slots : container_queues[s] = << >> /\ Len(started[s]) >= 1

\* C5: task_done fires once for each dequeued task when its iteration ends
\* on whatever path: each queue's unfinished count is the number of tasks
\* still queued plus the one in its worker's hands.
C5_UnfinishedCount ==
    \A s \in Slots :
        unfinished[s] = Len(container_queues[s]) + (IF cur[s] # NoTask THEN 1 ELSE 0)

\* One worker was cancelled in the middle of a task, the other has ended an
\* iteration by a timeout.
C5_Witness ==
    \E s, t \in Slots :
        /\ outcome[s] = "cancelled"
        /\ outcome[t] = "timeout" /\ Len(finished[t]) >= 1

Processed(i) == Len(accepted) >= i /\ i \in Range(finished[accepted[i].slot])

\* C4: while shutdown is not called no worker ever terminates: whatever the
\* outcome of a task (clone failure, non-zero exit, malformed output,
\* timeout, failed post) the worker is waiting on its queue again and again,
\* and from some time on every task put on a slot has been processed to the
\* end of its iteration.
C4_WorkerSurvives ==
    /\ [](\A s \in Slots : pc[s] # "cancelled")
    /\ \A s \in PoolNames : []<>(s \in Slots => pc[s] = "get")
    /\ <>[](\A i \in 1..Len(accepted) : Processed(i))

\* A worker is back on its queue after the malformed output of the second
\* task it handled, the first one having been completed too.
C4_Witness ==
    \E s \in Slots :
        /\ outcome[s] = "malformed" /\ pc[s] = "get"
        /\ Len(finished[s]) = 2 /\ comments[s] = <<"post_parse", "post_exc">>

\* C6: once the wait for the worker subprocess times out the subprocess is
\* killed, none is in flight for the slot while the worker reaps it and
\* reports, the only comment tried is the timeout message (none for a test
\* event), the worker returns to its queue, and the tasks queued behind the
\* timed-out one are taken: in the end every worker waits on an empty queue
\* with no subprocess left.
C6_TimeoutKillsAndReports ==
    /\ [](\A s \in Slots :
            pc[s] \in {"killwait", "post_timeout"}
                => inflight[s] = 0 /\ outcome[s] = "timeout")
    /\ [][\A s \in Slots :
            pc[s] = "killwait" /\ pc'[s] # "killwait"
                => IF cur[s].is_test
                   THEN pc'[s] = "get" /\ comments'[s] = << >>
                   ELSE pc'[s] = "post_timeout" /\ comments'[s] = <<"post_timeout">>]_vars
    /\ [][\A s \in Slots :
            pc[s] = "post_timeout" /\ pc'[s] # "post_timeout"
                => pc'[s] = "get" /\ comments'[s] = comments[s]]_vars
    /\ <>[](\A s \in Slots :
              pc[s] = "get" /\ container_queues[s] = << >> /\ inflight[s] = 0)

\* A worker is back on its queue after a timeout: the subprocess is gone and
\* the timeout comment was tried once.
C6_Witness ==
    \E s \in Slots :
        /\ outcome[s] = "timeout" /\ pc[s] = "get"
        /\ inflight[s] = 0 /\ comments[s] = <<"post_timeout">>
        /\ Len(finished[s]) >= 1

PoolIndex(s) == CHOOSE k \in 1..Len(Pool) : Pool[k] = s

SingleQueue(r) == DevsYml[r].single_queue

\* C7: a queue_task call for a repository without affinity entry appends
\* the task to a queue that was a shortest one when the call was made, the
\* first such queue in pool order, and to no other queue.
C7_ShortestQueueFirst ==
    [][Len(accepted') = Len(accepted) + 1
          /\ accepted'[Len(accepted')].repo_name \notin DOMAIN single_queue_repos
       => LET s == accepted'[Len(accepted')].slot
          IN  /\ s \in Slots
              /\ Len(container_queues'[s]) = Len(container_queues[s]) + 1
              /\ container_queues'[s][Len(container_queues'[s])].task_id = Len(accepted')
              /\ \A t \in Slots :
                     /\ Len(container_queues[t]) >= Len(container_queues[s])
                     /\ PoolIndex(t) < PoolIndex(s)
                            => Len(container_queues[t]) > Len(container_queues[s])
                     /\ t # s => container_queues'[t] = container_queues[t]]_vars

\* The first task went to the first slot of an idle pool (a tie), the second
\* to the second slot, whose queue was then the shorter one, and the third
\* to the first again (a tie at depth one).
C7_Witness ==
    /\ Len(accepted) = 3
    /\ accepted[1].slot = Pool[1] /\ accepted[2].slot = Pool[2]
    /\ accepted[3].slot = Pool[1]
    /\ Len(container_queues[Pool[1]]) = 2 /\ Len(container_queues[Pool[2]]) = 1

\* C8: all tasks of a repository whose DEVS.yml sets single_queue are put
\* on one and the same slot.
C8_SingleQueueSameSlot ==
    \A i, j \in 1..Len(accepted) :
        accepted[i].repo_name = accepted[j].repo_name /\ SingleQueue(accepted[i].repo_name)
            => accepted[i].slot = accepted[j].slot

\* C9: the entry a single-queue repository has in the affinity table once a
\* task of it was queued never changes, and every later queue_task for the
\* repository puts the task on the recorded slot, whatever the queue depths.
C9_AffinitySticky ==
    \A i, j \in 1..Len(accepted) :
        i < j /\ accepted[i].repo_name = accepted[j].repo_name
              /\ SingleQueue(accepted[i].repo_name)
            => /\ accepted[j].repo_name \in DOMAIN single_queue_repos
               /\ accepted[j].slot = single_queue_repos[accepted[j].repo_name]

\* C10: a queue_task call for a repository whose cached copy has a DEVS.yml
\* with single_queue true and which has no affinity entry leaves the entry
\* repo_name -> chosen slot, a pool member, in the table.
C10_QueueTaskRecordsAffinity ==
    [][Len(accepted') = Len(accepted) + 1
       => LET r == accepted'[Len(accepted')].repo_name
          IN  repoExists[r] /\ SingleQueue(r) /\ r \notin DOMAIN single_queue_repos
                  => /\ r \in DOMAIN single_queue_repos'
                     /\ single_queue_repos'[r] = accepted'[Len(accepted')].slot
                     /\ single_queue_repos'[r] \in Slots]_vars

\* C11: a worker that has launched the subprocess for a task of a
\* single-queue repository has made sure before that the repository is in
\* the affinity table (bound to its own slot if it was not bound yet).
C11_WorkerFirstTouch ==
    \A s \in Slots :
        pc[s] = "wait" /\ SingleQueue(cur[s].repo_name)
            => /\ cur[s].repo_name \in DOMAIN single_queue_repos
               /\ single_queue_repos[cur[s].repo_name] \in Slots

C13_ScenarioABC ==
    /\ Len(accepted) = 3
    /\ \A s \in Slots : started[s] = << >>
    /\ ~SingleQueue(accepted[1].repo_name)
    /\ SingleQueue(accepted[2].repo_name)
    /\ accepted[3].repo_name = accepted[2].repo_name
    => /\ accepted[1].slot # accepted[2].slot
       /\ accepted[3].slot = accepted[2].slot

\* C14: queue_task returns False exactly when no container is configured;
\* with a container configured it returns True and the task is in a queue;
\* and a call never waits: it can always run to its return.
C14_RejectsOnlyEmptyPool ==
    /\ [](\A k \in 1..Len(returns) : returns[k] <=> Pool # << >>)
    /\ [](Len(returns) < MaxTasks => ENABLED queue_task("org/normal", FALSE))
    /\ [][Len(returns') = Len(returns) + 1
            => IF Pool = << >>
               THEN /\ ~returns'[Len(returns')]
                    /\ container_queues' = container_queues
               ELSE /\ returns'[Len(returns')]
                    /\ Len(accepted') = Len(accepted) + 1
                    /\ \E s \in Slots :
                           /\ Len(container_queues'[s]) = Len(container_queues[s]) + 1
                           /\ container_queues'[s][Len(container_queues'[s])].task_id
                                  = Len(accepted')]_vars

\* A pool configured without containers has rejected two calls.
C14_Witness == Pool = << >> /\ returns = <<FALSE, FALSE>>

RECURSIVE QueuedUpTo(_)
QueuedUpTo(i) ==
    IF i = 0 THEN 0 ELSE Len(container_queues[Pool[i]]) + QueuedUpTo(i - 1)

\* The number of tasks in all queues.
TotalQueued == QueuedUpTo(Len(Pool))

\* C15: a queue_task call that returns True appends one task to one queue
\* and leaves the other queues as they are; as long as no worker has taken
\* a task the queues together hold as many tasks as calls returned True.
C15_OneTaskOneQueue ==
    /\ [][Len(returns') = Len(returns) + 1 /\ returns'[Len(returns')]
            => \E s \in Slots :
                   /\ Len(container_queues'[s]) = Len(container_queues[s]) + 1
                   /\ SubSeq(container_queues'[s], 1, Len(container_queues[s]))
                          = container_queues[s]
                   /\ \A t \in Slots \ {s} :
                          container_queues'[t] = container_queues[t]]_vars
    /\ []((\A s \in Slots : started[s] = << >>)
              => TotalQueued = Cardinality({k \in 1..Len(returns) : returns[k]}))

\* Three calls returned True, no worker has taken a task, the queues hold
\* two tasks and one.
C15_Witness ==
    /\ returns = <<TRUE, TRUE, TRUE>>
    /\ \A s \in Slots : started[s] = << >>
    /\ Len(Pool) = 2 /\ TotalQueued = 3
    /\ Len(container_queues[Pool[2]]) = 1

\* C16: a worker subprocess that exits with 0 and has no JSON on stdout
\* makes the task fail: for a non-test event an error comment is tried that
\* quotes at most StdoutQuoteLimit characters of the output, then the outer
\* handler's comment, which quotes none; no step ends the worker, it goes
\* back to its queue with the task's iteration completed, and no worker
\* stays inside the reporting.
C16_MalformedOutputReported ==
    /\ [](\A s \in Slots : quoted[s] <= StdoutQuoteLimit)
    /\ [][\A s \in Slots :
            pc[s] = "wait" /\ outcome'[s] = "malformed"
                => IF cur[s].is_test
                   THEN /\ pc'[s] = "get" /\ comments'[s] = << >>
                        /\ finished'[s] = Append(finished[s], cur[s].task_id)
                   ELSE /\ pc'[s] = "post_parse"
                        /\ comments'[s] = <<"post_parse">>
                        /\ quoted'[s] <= StdoutQuoteLimit]_vars
    /\ [][\A s \in Slots :
            pc[s] = "post_parse" /\ pc'[s] # "post_parse"
                => pc'[s] = "post_exc" /\ quoted'[s] = 0]_vars
    /\ [][\A s \in Slots :
            pc[s] = "post_exc" /\ pc'[s] # "post_exc"
                => /\ pc'[s] = "get"
                   /\ finished'[s] = Append(finished[s], cur[s].task_id)]_vars
    /\ <>[](\A s \in Slots : pc[s] \notin {"post_parse", "post_exc"})

\* The comment on a malformed output is being posted; it quotes as much of
\* the output as the limit allows.
C16_Witness ==
    \E s \in Slots :
        /\ pc[s] = "post_parse" /\ outcome[s] = "malformed"
        /\ quoted[s] = StdoutQuoteLimit /\ comments[s] = <<"post_parse">>

\* C17: a worker subprocess that has exited has printed a JSON envelope
\* last, and its exit code is 0 exactly if the envelope's success field is
\* true; this on the path through the task processing and on the path
\* through the exception handler (empty, invalid or incomplete stdin,
\* rejected event or options).
C17_ExitCodeIffSuccess ==
    IF wpc = "exited"
    THEN /\ Len(exit_status) = 1
         /\ Len(stdout) >= 1
         /\ stdout[Len(stdout)].kind = "json"
         /\ exit_status[1] = 0 <=> stdout[Len(stdout)].success
    ELSE exit_status = << >>

\* The worker got the payload the pool writes, failed in the call of
\* execute_task, printed the failure and exited with 1.
C17_Witness ==
    /\ wpc = "exited" /\ worker_in.stdin_data = "valid"
    /\ result = [success |-> FALSE, error |-> "TypeError"]
    /\ exit_status = <<1>>

C19_ReportedOnce == \A s \in Slots : Len(comments[s]) <= 1

\* C20: when a worker lets go of a task with a non-test event that did not
\* succeed, at least one failure comment has been tried for it.
C20_FailureCommentAttempted ==
    [][\A s \in Slots :
          cur[s] # NoTask /\ ~cur[s].is_test /\ cur'[s] = NoTask
                          /\ outcome'[s] # "success"
              => Len(comments'[s]) >= 1]_vars

PostSites == {"post_exit", "post_parse", "post_timeout", "post_exc"}

\* C21: a task whose event is a test event never has a comment posted for
\* it: while a worker holds it the worker is at no posting site and no
\* comment has been tried, and none is tried in the step that ends it.
C21_TestEventsSilent ==
    /\ [](\A s \in Slots :
            cur[s] # NoTask /\ cur[s].is_test
                => comments[s] = << >> /\ pc[s] \notin PostSites)
    /\ [][\A s \in Slots :
            cur[s] # NoTask /\ cur[s].is_test => comments'[s] = << >>]_vars

\* A task has ended in failure and its worker is back at its queue with no
\* comment tried: only a test event ends this way.
C21_Witness ==
    \E s \in Slots :
        /\ pc[s] = "get" /\ cur[s] = NoTask /\ finished[s] # << >>
        /\ outcome[s] \in {"clone_failed", "exit_failed", "timeout"}
        /\ comments[s] = << >>

\* C22: a post that fails is neither propagated nor retried.  A worker
\* waiting in a post can go on when the post has failed; at each posting
\* site the post is tried once; and the worker's step out of a post leads to
\* the one state that follows a successful post: the second comment of a
\* malformed output, else the task done and the worker back at its queue.
C22_FailedPostIgnored ==
    /\ [](\A s \in Slots :
            /\ pc[s] \in PostSites => ENABLED post_done(s, FALSE)
            /\ \A i, j \in 1..Len(comments[s]) :
                   comments[s][i] = comments[s][j] => i = j)
    /\ [][\A s \in Slots :
            /\ pc[s] \in PostSites /\ shutdown' = shutdown
            /\ pc'[s] # pc[s] \/ comments'[s] # comments[s]
            => IF pc[s] = "post_parse"
               THEN /\ pc'[s] = "post_exc" /\ cur'[s] = cur[s]
                    /\ comments'[s] = Append(comments[s], "post_exc")
                    /\ unfinished'[s] = unfinished[s]
               ELSE /\ pc'[s] = "get" /\ cur'[s] = NoTask
                    /\ comments'[s] = comments[s]
                    /\ unfinished'[s] = unfinished[s] - 1
                    /\ finished'[s] = Append(finished[s], cur[s].task_id)]_vars

\* A worker is back at its queue after the one comment of a task whose
\* subprocess failed.
C22_Witness ==
    \E s \in Slots :
        /\ pc[s] = "get" /\ cur[s] = NoTask /\ Len(finished[s]) = 1
        /\ outcome[s] = "exit_failed" /\ comments[s] = <<"post_exit">>
        /\ unfinished[s] = Len(container_queues[s])

\* C24: a worker leaves the clone either into the launch, with the copy in
\* place, or, the clone having failed, without a launch: nothing is put
\* back on a queue, a test task ends there, any other task is reported once
\* and ends when the post returns; a task whose clone failed never has a
\* subprocess and is on no queue.
C24_CloneFailureAbandonsTask ==
    /\ [][\A s \in Slots :
            pc[s] = "clone" /\ pc'[s] # "clone" /\ shutdown' = shutdown
            => IF pc'[s] = "wait"
               THEN /\ repoExists'[cur[s].repo_name]
                    /\ inflight'[s] = inflight[s] + 1
               ELSE /\ outcome'[s] = "clone_failed"
                    /\ inflight' = inflight
                    /\ container_queues' = container_queues
                    /\ repoExists' = repoExists
                    /\ IF cur[s].is_test
                       THEN /\ pc'[s] = "get" /\ cur'[s] = NoTask
                            /\ finished'[s] = Append(finished[s], cur[s].task_id)
                       ELSE /\ pc'[s] = "post_exc" /\ cur'[s] = cur[s]
                            /\ comments'[s] = <<"post_exc">>]_vars
    /\ [][\A s \in Slots :
            outcome[s] = "clone_failed" /\ pc[s] = "post_exc"
                /\ pc'[s] # pc[s] /\ shutdown' = shutdown
            => /\ pc'[s] = "get" /\ cur'[s] = NoTask
               /\ finished'[s] = Append(finished[s], cur[s].task_id)
               /\ inflight' = inflight
               /\ container_queues' = container_queues]_vars
    /\ [](\A s \in Slots :
            outcome[s] = "clone_failed"
            => /\ pc[s] \in {"post_exc", "get", "cancelled"}
               /\ cur[s] # NoTask
                  => \A q \in Slots : cur[s].task_id \notin Range(QueuedIds(q)))

\* A clone has failed, the failure was reported, the task is finished, no
\* subprocess was started and the worker is back at its queue.
C24_Witness ==
    \E s \in Slots :
        /\ outcome[s] = "clone_failed" /\ pc[s] = "get" /\ cur[s] = NoTask
        /\ comments[s] = <<"post_exc">> /\ Len(finished[s]) = 1
        /\ inflight[s] = 0 /\ \A r \in Repos : ~repoExists[r]

\* C27: while the worker subprocess of a slot runs, the slot is marked
\* running with the repository of its task.
C27_MarkedRunningBeforeLaunch ==
    \A s \in Slots :
        pc[s] = "wait"
            => /\ s \in DOMAIN running_containers
               /\ running_containers[s].repo_path = cur[s].repo_name

\* The running slots whose last use lies more than the idle timeout before
\* `now`.
Expired(now) ==
    {s \in Slots : /\ s \in DOMAIN running_containers
                   /\ running_containers[s].last_used + container_timeout_minutes < now}

\* The calls of _cleanup_container a step adds.
NewCleanupCalls ==
    SubSeq(cleanupCalls', Len(cleanupCalls) + 1, Len(cleanupCalls'))

C29_SweepIdempotent ==
    /\ \A i, j \in 1..Len(cleanupCalls) :
           /\ cleanupCalls[i] \notin DOMAIN running_containers
           /\ cleanupCalls[i] = cleanupCalls[j] => i = j
    /\ \A now \in Clock :
           LET after == Reaped(running_containers,
                               IdleContainers(running_containers, now))
           IN  /\ IdleContainers(after, now) = {}
               /\ Reaped(after, IdleContainers(after, now)) = after

\* Both slots were cleaned up and no slot is running any more.
C29_Witness ==
    /\ Len(cleanupCalls) = 2
    /\ DOMAIN running_containers = {}

Returned == {"returned", "validated", "rejected"}

C25_OptionsRoundTrip ==
    cache.pc \in Returned
    => /\ cache.devs_yml =
              [kind |-> "mapping",
               data |-> [default_branch |-> StrValue("develop"),
                         prompt_extra |-> StrValue("x"),
                         single_queue |-> BoolValue("true"),
                         unknown_key |-> Absent]]
          => /\ cache.devs_options.default_branch = StrValue("develop")
             /\ cache.devs_options.prompt_extra = StrValue("x")
             /\ "single_queue" \in DOMAIN cache.devs_options
             /\ cache.devs_options.single_queue = BoolValue("true")
       /\ cache.devs_yml.kind = "absent"
          => /\ cache.devs_options.default_branch = StrValue("main")
             /\ cache.devs_options.prompt_extra = StrValue("")
             /\ "single_queue" \in DOMAIN cache.devs_options
             /\ cache.devs_options.single_queue = BoolValue("false")

\* The options a permissive parse gives: the string of the file for a field
\* the file holds as a string, else the default.
PermissiveOptions(file) ==
    [f \in DevsOptionsFields |->
        IF file.kind = "mapping" /\ file.data[f].type = "str"
        THEN file.data[f]
        ELSE DevsOptionsDefault[f]]

\* C26: the options the call returns are those of a permissive parse, and
\* the worker subprocess never rejects the options handed to it.
C26_OptionsAlwaysValid ==
    /\ cache.pc \in Returned
           => cache.devs_options = PermissiveOptions(cache.devs_yml)
    /\ cache.pc # "rejected"

\* shutdown() has returned.
ShutdownReturned == shutdown = Len(Pool) + 2

\* C33: after shutdown has returned no worker subprocess the pool launched
\* is still running.
C33_NoSubprocessAfterShutdown ==
    ShutdownReturned => \A s \in Slots : inflight[s] = 0

\* C36: queue_task never puts a task on a slot whose worker is executing a
\* task while another slot is idle, its worker executing nothing and its
\* queue empty.
C36_NextAvailableContainer ==
    [][Len(accepted') = Len(accepted) + 1
       => LET s == accepted'[Len(accepted')].slot
          IN  cur[s] # NoTask
                  => ~\E t \in Slots :
                         /\ t # s /\ pc[t] = "get" /\ cur[t] = NoTask
                         /\ container_queues[t] = << >>]_vars

\* No worker has taken a task from its queue yet.
NothingDequeued == \A s \in Slots : started[s] = << >>

HoldsLock ==
    \/ \E now \in Clock : idle_cleanup_sweep(now)
    \/ shutdown_cleanup

\* C31: the queues and the table of running containers change only in
\* steps that hold the lock, and no step that holds the lock calls
\* _cleanup_container (Stop and RemoveWorkspace).
C31_TableAccessUnderLock ==
    /\ [][container_queues' # container_queues
             \/ running_containers' # running_containers => HoldsLock]_vars
    /\ [][HoldsLock => cleanupCalls' = cleanupCalls]_vars

\* C34: the status agrees with the pool: the depth of every slot's queue,
\* the entries of the running slots, the number of slots, and the table of
\* single-queue repositories.
C34_StatusSnapshot ==
    LET status == get_status
    IN  /\ status.total_containers = Len(Pool)
        /\ DOMAIN status.container_queues = Slots
        /\ \A s \in Slots :
               status.container_queues[s] = Len(container_queues[s])
        /\ DOMAIN status.running_containers = DOMAIN running_containers
        /\ "single_queue_repos" \in DOMAIN status
        /\ status.single_queue_repos = single_queue_repos

\* The errors _cleanup_container logs in a step.
NewCleanupErrors ==
    SubSeq(cleanup_errors', Len(cleanup_errors) + 1, Len(cleanup_errors'))

\* C39: a sweep in which stopping the container or removing the workspace
\* fails for some slot still cleans up every slot that was idle for longer
\* than the timeout and drops each of them, the failing ones included, from
\* the running slots; the cleanup worker stays in its loop, and but for the
\* log nothing else of the pool changes: no comment is posted and no task
\* outcome is touched.
C39_CleanupFailureOnlyLogged ==
    [][cleanup_errors' # cleanup_errors
          => \E now \in Clock :
                 /\ Range(NewCleanupErrors) # {}
                 /\ Range(NewCleanupErrors) \subseteq Expired(now)
                 /\ Range(NewCleanupCalls) = Expired(now)
                 /\ DOMAIN running_containers' = DOMAIN running_containers \ Expired(now)
                 /\ reaper' = "sleep"
                 /\ UNCHANGED <<container_queues, unfinished, pc, cur, inflight,
                                accepted, started, finished, comments, outcome,
                                shutdown>>]_vars

\* The cleanup of the first of two idle slots failed, and both were cleaned
\* up and dropped.
C39_Witness ==
    /\ Len(Pool) = 2
    /\ cleanup_errors = <<Pool[1]>>
    /\ cleanupCalls = Pool
    /\ DOMAIN running_containers = {}
    /\ reaper = "sleep"

\* The calls of _cleanup_container at the end of cleanupCalls, as many as
\* there are running containers.
LastCleanupCalls ==
    SubSeq(cleanupCalls,
           Len(cleanupCalls) - Cardinality(DOMAIN running_containers) + 1,
           Len(cleanupCalls))

C38_NoActiveMentionPosted ==
    thread # NoComment => extract_mentions(thread.text) = << >>

\* The pool a task type is meant to use: its own when that is configured
\* with at least one name, the main one otherwise.
ExpectedPool(task_type) ==
    LET own == IF task_type = "tests" THEN split_pool(config.TEST_CONTAINER_POOL)
               ELSE IF task_type = "claude" THEN split_pool(config.CLAUDE_CONTAINER_POOL)
               ELSE << >>
    IN  IF own # << >> THEN own ELSE get_container_pool_list(config.CONTAINER_POOL)

\* C35: get_pool_for_task_type returns the pool of the task type when one
\* is configured and the main pool otherwise, also for a type it does not
\* know; and the main pool list is what CONTAINER_POOL says, whatever the
\* other two settings are.
C35_PoolForTaskType ==
    config # NoConfig
        => /\ config.returned.method = "get_pool_for_task_type"
                  => /\ config.returned.raised = "none"
                     /\ config.returned.value = ExpectedPool(config.returned.task_type)
           /\ config.returned.method = "get_container_pool_list"
                  => /\ config.returned.raised = "none"
                     /\ config.returned.value =
                            get_container_pool_list(config.CONTAINER_POOL)


====
